---- MODULE Spec2Model ----
(***************************************************************************)
(* Ext.data.association.HasOne (touch/src/data/association/HasOne.js):     *)
(* a one-to-one association implemented on top of a per-record             *)
(* Ext.data.Store.  applyStore returns the store factory; the factory,     *)
(* called on an owner record, creates the record's store once, installs a  *)
(* getter and a setter on that record and starts the store's load.         *)
(*                                                                         *)
(* Names (association name, store name, accessor names) are sequences of   *)
(* one-character strings so that toLowerCase and capitalize are computed.  *)
(***************************************************************************)
EXTENDS Integers, Sequences, FiniteSets, TLC

\* ------------------------------------------------------------ bounds
MaxKey == 2
MaxStores == 2

\* the owner records the application creates, by their id:
\* Ext.create('Person', { id: 1, ... }), Ext.create('Person', { id: 2, ... })
Records == {1, 2}
Keys == 1..MaxKey

\* JavaScript values are tagged records, so that any two can be compared.
\* undefined: an unset property, the result of a function without a return
\* statement, first() of an empty store.
Undefined == [type |-> "undefined"]

Number(k) == [type |-> "number", value |-> k]

\* An associated record (a model instance) with primary key k
Model(k) == [type |-> "model", id |-> k]

\* A reference to the store with identity id
StoreRef(id) == [type |-> "store", id |-> id]

\* A model class (the constructor Ext.define gives), by its name
ModelClass(name) == [type |-> "class", name |-> name]

\* A function installed on a record, closed over the store it was created with
Closure(kind, id) == [type |-> "function", kind |-> kind, store |-> id]

\* ------------------------------------------------------------ strings
UpperCase ==
    <<"A", "B", "C", "D", "E", "F", "G", "H", "I", "J", "K", "L", "M",
      "N", "O", "P", "Q", "R", "S", "T", "U", "V", "W", "X", "Y", "Z">>
LowerCase ==
    <<"a", "b", "c", "d", "e", "f", "g", "h", "i", "j", "k", "l", "m",
      "n", "o", "p", "q", "r", "s", "t", "u", "v", "w", "x", "y", "z">>

IndexIn(c, alphabet) ==
    IF \E i \in 1..Len(alphabet) : alphabet[i] = c
    THEN CHOOSE i \in 1..Len(alphabet) : alphabet[i] = c
    ELSE 0

\* String.prototype.toLowerCase
toLowerCase(s) ==
    [i \in 1..Len(s) |->
        IF IndexIn(s[i], UpperCase) # 0 THEN LowerCase[IndexIn(s[i], UpperCase)] ELSE s[i]]

toUpperCase(s) ==
    [i \in 1..Len(s) |->
        IF IndexIn(s[i], LowerCase) # 0 THEN UpperCase[IndexIn(s[i], LowerCase)] ELSE s[i]]

\* Ext.String.capitalize: the first character in upper case, the rest as is
capitalize(s) ==
    IF s = <<>> THEN s ELSE toUpperCase(<<Head(s)>>) \o Tail(s)

\* ---------------------------------------------------- the associations
Address == <<"A", "d", "d", "r", "e", "s", "s">>
Vehicle == <<"V", "e", "h", "i", "c", "l", "e">>
Ghost == <<"G", "h", "o", "s", "t">>

\* the model classes that are defined; Ghost is the name of none
ModelTypes == {Address, Vehicle}

\* a store configuration: the properties it does not have are undefined
NoStoreConfig == [model |-> Undefined, filters |-> Undefined]

\* The hasOne associations the owner model declares, in the order of
\* declaration: { type: 'hasOne', model: 'Address' }, ... ; name, primaryKey
\* and foreignKey are the configured ones, empty when the declaration gives
\* none; store is the store configuration handed to applyStore.
Associations ==
    << [model |-> Address, name |-> <<>>, primaryKey |-> <<>>, foreignKey |-> <<>>,
        store |-> NoStoreConfig],
       [model |-> Vehicle, name |-> <<>>, primaryKey |-> <<>>, foreignKey |-> <<>>,
        store |-> NoStoreConfig],
       [model |-> Ghost, name |-> <<>>, primaryKey |-> <<>>, foreignKey |-> <<>>,
        store |-> NoStoreConfig] >>

\* Registration with every declaration accepted, its model defined or not
ResolvableAlways(model) == TRUE

\* the associated model's name resolves to a defined model class
Resolvable(model) == model \in ModelTypes

\* the declarations that define an association: the others fail with a
\* configuration error and register nothing
Relations == {R \in DOMAIN Associations : Resolvable(Associations[R].model)}

getAssociatedName(R) == Associations[R].model

getAssociatedModel(R) == ModelClass(Associations[R].model)

\* applyName without the lower-casing of the associated model's name
applyNameAsIs(name, associatedName) ==
    IF name = <<>> THEN associatedName ELSE name

\* applyName: function(name), with this.getAssociatedName() as associatedName
applyName(name, associatedName) ==
    IF name = <<>> THEN toLowerCase(associatedName) ELSE name

getName(R) == applyName(Associations[R].name, getAssociatedName(R))

\* HasMany's store name: the association's name followed by 'Store'
applyStoreName(name) == name \o <<"S", "t", "o", "r", "e">>

getStoreName(R) == applyStoreName(getName(R))

\* "get" + Ext.String.capitalize(me.getName())
GetterNameOf(name) == <<"g", "e", "t">> \o capitalize(name)

\* "set" + Ext.String.capitalize(me.getName())
SetterNameOf(name) == <<"s", "e", "t">> \o capitalize(name)

GetterName(R) == GetterNameOf(getName(R))

SetterName(R) == SetterNameOf(getName(R))

\* applyForeignKey with the configured foreign key ignored
applyForeignKeyDefault(foreignKey, associatedName) ==
    toLowerCase(associatedName) \o <<"_", "i", "d">>

\* the owner's foreign key field: the configured one, else <associatedName>_id
applyForeignKey(foreignKey, associatedName) ==
    IF foreignKey = <<>>
    THEN toLowerCase(associatedName) \o <<"_", "i", "d">>
    ELSE foreignKey

\* the associated model's primary key field: the configured one, else 'id'
applyPrimaryKey(primaryKey) ==
    IF primaryKey = <<>> THEN <<"i", "d">> ELSE primaryKey

getForeignKey(R) == applyForeignKey(Associations[R].foreignKey, getAssociatedName(R))

getPrimaryKey(R) == applyPrimaryKey(Associations[R].primaryKey)

\* the names above, computed once per association
storeNames == [R \in Relations |-> getStoreName(R)]
getterNames == [R \in Relations |-> GetterName(R)]
setterNames == [R \in Relations |-> SetterName(R)]
foreignKeys == [R \in Relations |-> getForeignKey(R)]

PropNames ==
    UNION {{storeNames[R], getterNames[R], setterNames[R]} : R \in Relations}

FieldNames == {foreignKeys[R] : R \in Relations}

\* the store configuration handed to applyStore
StoreConfig(R) == Associations[R].store

\* ---------------------------------------------------------- the state
VARIABLES
    props,      \* props[r][name]: the properties set on the owner record r
    fields,     \* fields[r][f]: the owner record's data fields (foreign keys)
    stores,     \* the Ext.data.Store instances created so far, by identity
    invoked,    \* the caller's callbacks invoked so far
    lastCall    \* the most recent call made by the application and its result

vars == <<props, fields, stores, invoked, lastCall>>

\* What the application passes to the setter: a raw key or a model instance
SetterValues == {Number(k) : k \in Keys} \cup {Model(k) : k \in Keys}

\* What the application passes to the getter: nothing, or a callback
GetterArgs == {<<>>, <<"callback">>}

\* the foreign keys the owner records are created with:
\* Ext.create('Person', { id: r, address_id: k, ... })
InitialKey(r) == Number(((r - 1) % MaxKey) + 1)

NoCall == [op |-> "none", args |-> <<>>, ret |-> Undefined]

Init ==
    /\ props = [r \in Records |-> [n \in PropNames |-> Undefined]]
    /\ fields = [r \in Records |-> [f \in FieldNames |-> InitialKey(r)]]
    /\ stores = [id \in {} |-> Undefined]
    /\ invoked = {}
    /\ lastCall = NoCall

\* ---------------------------------------------------- Ext.data.Store
\* Ext.apply(object, config, defaults): the defaults, then the config over them
ExtApply(object, config, defaults) ==
    [k \in DOMAIN config |->
        IF config[k] # Undefined THEN config[k]
        ELSE IF k \in DOMAIN defaults THEN defaults[k]
        ELSE Undefined]

\* Ext.create('Ext.data.Store', config): a new, empty store that has not loaded;
\* reads counts the reads the store has sent to its proxy, pending those of
\* them that have not completed
ExtCreateStore(config) ==
    [model |-> config.model, filters |-> config.filters, data |-> <<>>,
     loading |-> FALSE, loaded |-> FALSE, reads |-> 0, pending |-> 0]

\* NewStoreId with one store per association, shared by its owner records
SharedStoreId(r, R) == <<1, R, 1>>

\* the identity of the object Ext.create returns: a new one at every call,
\* named by the record and association it is created for and a serial number
NewStoreId(r, R) ==
    <<r, R, 1 + Cardinality({id \in DOMAIN stores : id[1] = r /\ id[2] = R})>>

\* store.load(): starts a read of the store's model through its proxy
StoreLoad(store) ==
    [store EXCEPT !.loading = TRUE, !.reads = @ + 1, !.pending = @ + 1]

\* store.removeAll()
StoreRemoveAll(data) == <<>>

\* a raw value added to a store becomes a record of the store's model
ToModel(v) == IF v.type = "model" THEN v ELSE Model(v.value)

\* store.add(record)
StoreAdd(data, v) == Append(data, ToModel(v))

\* store.first()
StoreFirst(data) == IF data = <<>> THEN Undefined ELSE data[1]

\* the records of a set of keys, in the order of their keys
RECURSIVE ModelsOf(_)
ModelsOf(S) ==
    IF S = {} THEN <<>>
    ELSE LET k == CHOOSE x \in S : \A y \in S : x <= y
         IN <<Model(k)>> \o ModelsOf(S \ {k})

\* what the data source may answer to a read: the records it holds that pass
\* the request's filters, whatever it holds at that time
ReadResults(store) ==
    {ModelsOf(S) : S \in {T \in SUBSET Keys :
        \A k \in T : store.filters = Undefined \/ store.filters = Number(k)}}

\* ------------------------------------------------- the store factory
\* SlotIsUndefined without the test of the cached store
SlotAlwaysUndefined(record, storeName) == TRUE

\* record[storeName] === undefined
SlotIsUndefined(record, storeName) == record[storeName] = Undefined

\* config = Ext.apply({}, storeConfig, { model: associatedModel })
FactoryConfigOf(storeConfig, associatedModel) ==
    ExtApply(<<>>, storeConfig, [model |-> associatedModel])

FactoryConfig(R) == FactoryConfigOf(StoreConfig(R), getAssociatedModel(R))

\* InitialLoad for a store that also loads by itself (autoLoad) when created
InitialLoadTwice(store) == StoreLoad(StoreLoad(store))

\* record[storeName].load()
InitialLoad(store) == StoreLoad(store)

\* GetterBody with the getter starting a load of its own
GetterBodyReload(store) == [store |-> StoreLoad(store), ret |-> StoreFirst(store.data)]

\* the getter installed on the record: function(){ return store.first(); }
\* as the store it leaves and the value it returns
GetterBody(store) == [store |-> store, ret |-> StoreFirst(store.data)]

\* SetterBody with its two statements in the other order
SetterBodyAddFirst(store, v) ==
    [store |-> [store EXCEPT !.data = StoreRemoveAll(StoreAdd(@, v))],
     ret |-> Undefined]

\* SetterBody without store.removeAll()
SetterBodyNoRemove(store, v) ==
    [store |-> [store EXCEPT !.data = StoreAdd(@, v)], ret |-> Undefined]

\* the setter installed on the record:
\* function(record){ store.removeAll(); store.add(record); }
SetterBody(store, v) ==
    [store |-> [store EXCEPT !.data = StoreAdd(StoreRemoveAll(@), v)],
     ret |-> Undefined]

\* Install with the setter left out
InstallGetterOnly(record, R, id) ==
    [n \in PropNames |->
        IF n = getterNames[R] THEN Closure("getter", id)
        ELSE IF n = storeNames[R] THEN StoreRef(id)
        ELSE record[n]]

\* the record after store = record[storeName] = ..., record["get" + ...] = ...
\* and record["set" + ...] = ..., the two functions closed over store
Install(record, R, id) ==
    [n \in PropNames |->
        IF n = setterNames[R] THEN Closure("setter", id)
        ELSE IF n = getterNames[R] THEN Closure("getter", id)
        ELSE IF n = storeNames[R] THEN StoreRef(id)
        ELSE record[n]]

\* the function applyStore returns, called with this = r
Factory(r, R) ==
    LET storeName == storeNames[R]
        id == NewStoreId(r, R)
    IN  IF SlotIsUndefined(props[r], storeName)
        THEN /\ Cardinality(DOMAIN stores) < MaxStores
             /\ props' = [props EXCEPT ![r] = Install(@, R, id)]
             /\ stores' = (id :> InitialLoad(ExtCreateStore(FactoryConfig(R)))) @@ stores
             /\ lastCall' = [op |-> "factory", args |-> <<>>, ret |-> StoreRef(id)]
             /\ UNCHANGED <<fields, invoked>>
        ELSE /\ lastCall' = [op |-> "factory", args |-> <<>>, ret |-> props[r][storeName]]
             /\ UNCHANGED <<props, fields, stores, invoked>>

\* record.getX(...): the arguments are not read
Getter(r, R, args) ==
    LET f == props[r][getterNames[R]]
    IN  /\ f.type = "function"
        /\ f.kind = "getter"
        /\ stores' = [stores EXCEPT ![f.store] = GetterBody(@).store]
        /\ lastCall' = [op |-> "get", args |-> args, ret |-> GetterBody(stores[f.store]).ret]
        /\ UNCHANGED <<props, fields, invoked>>

\* record.setX(v)
Setter(r, R, v) ==
    LET f == props[r][setterNames[R]]
    IN  /\ f.type = "function"
        /\ f.kind = "setter"
        /\ stores' = [stores EXCEPT ![f.store] = SetterBody(@, v).store]
        /\ lastCall' = [op |-> "set", args |-> <<v>>, ret |-> SetterBody(stores[f.store], v).ret]
        /\ UNCHANGED <<props, fields, invoked>>

\* the continuation of a load, run by the store when its read has completed
OnLoad == [op |-> "onload", args |-> <<>>, ret |-> Undefined]

\* the read started by load() succeeds: its records become the store's data
LoadSuccess(id, records) ==
    /\ stores[id].pending > 0
    /\ records \in ReadResults(stores[id])
    /\ stores' = [stores EXCEPT ![id] =
            [@ EXCEPT !.data = records, !.loading = FALSE, !.loaded = TRUE,
                      !.pending = @ - 1]]
    /\ lastCall' = OnLoad
    /\ UNCHANGED <<props, fields, invoked>>

\* the read started by load() fails: the store stays as it is, still loading
LoadFailure(id) ==
    /\ stores[id].pending > 0
    /\ stores' = [stores EXCEPT ![id] = [@ EXCEPT !.pending = @ - 1]]
    /\ lastCall' = OnLoad
    /\ UNCHANGED <<props, fields, invoked>>

Next ==
    \/ \E r \in Records, R \in Relations : Factory(r, R)
    \/ \E r \in Records, R \in Relations, args \in GetterArgs : Getter(r, R, args)
    \/ \E r \in Records, R \in Relations, v \in SetterValues : Setter(r, R, v)
    \/ \E id \in DOMAIN stores : \E records \in ReadResults(stores[id]) : LoadSuccess(id, records)
    \/ \E id \in DOMAIN stores : LoadFailure(id)

Spec == Init /\ [][Next]_vars

\* ------------------------------------------------ definition time
\* the names an explicit configuration may give
ConfiguredNames == {<<>>, <<"h", "o", "m", "e">>, <<"H", "Q">>, <<"a", "d", "d", "r">>}
ConfiguredPrimaryKeys == {<<>>, <<"u", "n", "i", "q", "u", "e", "_", "i", "d">>}
ConfiguredForeignKeys == {<<>>, <<"a", "d", "d", "r", "_", "i", "d">>}
ConfiguredStores ==
    {NoStoreConfig} \cup
    {[model |-> ModelClass(m), filters |-> Undefined] : m \in ModelTypes}

\* the hasOne declarations an owner model may make
Declarations ==
    [model : ModelTypes \cup {Ghost}, name : ConfiguredNames,
     primaryKey : ConfiguredPrimaryKeys, foreignKey : ConfiguredForeignKeys,
     store : ConfiguredStores]

\* What the definition of the association declared by d gives: a
\* configuration error, or the association with its name, its keys, the names
\* of the properties the factory sets on a record and the configuration of
\* the stores the factory creates
Define(d) ==
    IF ~Resolvable(d.model)
    THEN [status |-> "error", error |-> "configuration", factory |-> FALSE]
    ELSE [status |-> "registered", factory |-> TRUE,
          name |-> applyName(d.name, d.model),
          primaryKey |-> applyPrimaryKey(d.primaryKey),
          foreignKey |-> applyForeignKey(d.foreignKey, d.model),
          storeName |-> applyStoreName(applyName(d.name, d.model)),
          getter |-> GetterNameOf(applyName(d.name, d.model)),
          setter |-> SetterNameOf(applyName(d.name, d.model)),
          config |-> FactoryConfigOf(d.store, ModelClass(d.model))]

\* Ext.define of an owner model with the hasOne declaration d
DefineAssociation(d) ==
    /\ lastCall' = [op |-> "define", args |-> <<d>>, ret |-> Define(d)]
    /\ UNCHANGED <<props, fields, stores, invoked>>

DefNext == \E d \in Declarations : DefineAssociation(d)

DefSpec == Init /\ [][DefNext]_vars

\* ------------------------------------------------------------ claims
\* record[storeName], the slot the factory caches the record's store in
Slot(r, R) == props[r][storeNames[R]]

Bound(r, R) == Slot(r, R) # Undefined

\* the stores created for record r by association R
StoresOf(r, R) == {id \in DOMAIN stores : id[1] = r /\ id[2] = R}

Owners == Records \X Relations

\* no second store is ever created for a record and association
C1_CreatedOnce ==
    \A r \in Records, R \in Relations : Cardinality(StoresOf(r, R)) <= 1

\* a bound slot keeps its store, and the factory returns the store in the slot
C1_SameStore ==
    \A r \in Records, R \in Relations :
        /\ Bound(r, R) => props'[r][storeNames[R]] = Slot(r, R)
        /\ (lastCall'.op = "factory" /\ Factory(r, R)) =>
              /\ lastCall'.ret.type = "store"
              /\ lastCall'.ret = props'[r][storeNames[R]]

\* C1: once the factory has been called on a record, the record's slot keeps
\* the same store for ever (it is never unset and never set to another store),
\* every call of the factory returns the store in the slot, and no second
\* store is ever created for the record and association.
C1_FactoryIdempotent == []C1_CreatedOnce /\ [][C1_SameStore]_vars

\* C1's case: the factory called again on a record whose store has loaded
C1_Witness ==
    /\ lastCall.op = "factory"
    /\ \E o \in Owners :
          /\ Slot(o[1], o[2]) = lastCall.ret
          /\ stores[lastCall.ret.id].loaded
          /\ stores[lastCall.ret.id].data # <<>>

\* C2: in every reachable state a record's store holds at most one element.
C2_AtMostOneElement ==
    \A id \in DOMAIN stores : Len(stores[id].data) <= 1

\* C3: when setX(v) returns, for a raw key or a record and whatever the store
\* held before, the store holds exactly the one element derived from v and the
\* record's getter returns it.
C3_SetThenGet ==
    [][lastCall'.op = "set" =>
        \A r \in Records, R \in Relations :
            Setter(r, R, lastCall'.args[1]) =>
                LET v == lastCall'.args[1]
                    g == props'[r][getterNames[R]]
                    e == IF v.type = "number" THEN Model(v.value) ELSE v
                IN  /\ g.type = "function"
                    /\ g.store = Slot(r, R).id
                    /\ stores'[g.store].data = <<e>>
                    /\ GetterBody(stores'[g.store]).ret = e]_vars

\* C3's case: the setter called with a raw key on the one store, after its load
C3_Witness ==
    /\ lastCall.op = "set"
    /\ lastCall.args[1].type = "number"
    /\ \E id \in DOMAIN stores :
          /\ DOMAIN stores = {id}
          /\ stores[id].loaded
          /\ stores[id].data = <<Model(lastCall.args[1].value)>>

C6_Distinct ==
    /\ \A o1 \in Owners : \A o2 \in Owners \ {o1} :
          Bound(o1[1], o1[2]) => Slot(o1[1], o1[2]) # Slot(o2[1], o2[2])
    /\ \A o \in Owners :
          LET g == props[o[1]][getterNames[o[2]]]
              f == props[o[1]][setterNames[o[2]]]
          IN  /\ g # Undefined => (Bound(o[1], o[2]) /\ g.store = Slot(o[1], o[2]).id)
              /\ f # Undefined => (Bound(o[1], o[2]) /\ f.store = Slot(o[1], o[2]).id)

\* a setter call or load completion that acts on one owner's store leaves
\* every other owner's slot and store as they were
C6_Frame ==
    (lastCall'.op = "set" \/ lastCall'.op = "onload") =>
        \A o1 \in Owners :
            (/\ Bound(o1[1], o1[2])
             /\ \/ stores'[Slot(o1[1], o1[2]).id] # stores[Slot(o1[1], o1[2]).id]
                \/ /\ lastCall'.op = "set"
                   /\ Setter(o1[1], o1[2], lastCall'.args[1]))
            => \A o2 \in Owners \ {o1} :
                  Bound(o2[1], o2[2]) =>
                      /\ props'[o2[1]][storeNames[o2[2]]] = Slot(o2[1], o2[2])
                      /\ stores'[Slot(o2[1], o2[2]).id] = stores[Slot(o2[1], o2[2]).id]

\* C6: in every state the stores of two records, and of two associations of
\* one record, are distinct, and the accessors of each use its own store; a
\* setter call or a load completion changes the store of one record and
\* association and leaves the others' slots and stores as they were.
C6_StoresNotShared == []C6_Distinct /\ [][C6_Frame]_vars

\* C6's case: two records with a store each for the same association, one of
\* them just set, holding different elements
C6_Witness ==
    /\ lastCall.op = "set"
    /\ \E R \in Relations :
          /\ Bound(1, R)
          /\ Bound(2, R)
          /\ stores[Slot(1, R).id].data # stores[Slot(2, R).id].data
          /\ stores[Slot(1, R).id].data # <<>>
          /\ stores[Slot(2, R).id].data # <<>>

\* C7: a callback passed to the getter is invoked once the load has completed:
\* at the call when the store has loaded already, at the load's completion
\* when the call came first.
C7_CallbackInvoked ==
    [][/\ \A r \in Records, R \in Relations :
            (/\ Getter(r, R, <<"callback">>)
             /\ stores[Slot(r, R).id].loaded) => "callback" \in invoked'
       /\ \A id \in DOMAIN stores :
            (/\ DOMAIN stores = {id}
             /\ lastCall.op = "get"
             /\ lastCall.args = <<"callback">>
             /\ \E recs \in SUBSET Keys : LoadSuccess(id, ModelsOf(recs)))
            => "callback" \in invoked']_vars

\* C8: the load of a record's store is keyed by the record's foreign key: when
\* it succeeds the store holds no record with another primary key.
C8_LoadKeyedByForeignKey ==
    [][\A id \in DOMAIN stores :
        (\E recs \in SUBSET Keys : LoadSuccess(id, ModelsOf(recs))) =>
            LET k == fields[id[1]][foreignKeys[id[2]]]
                e == GetterBody(stores'[id]).ret
            IN  e # Undefined => (k.type = "number" /\ e.id = k.value)]_vars

\* C9: after setX(k) with a raw key k the owner's foreign key field is k.
C9_SetterSetsForeignKey ==
    [][\A r \in Records, R \in Relations, k \in Keys :
        Setter(r, R, Number(k)) => fields'[r][foreignKeys[R]] = Number(k)]_vars

\* C10: a store set while its load was in flight (loading and not empty) still
\* holds the setter's element after the load has completed.
C10_SetterOutlivesLoad ==
    [][\A id \in DOMAIN stores :
        (/\ stores[id].pending > 0
         /\ stores[id].data # <<>>
         /\ \E recs \in SUBSET Keys : LoadSuccess(id, ModelsOf(recs)))
        => stores'[id].data = stores[id].data]_vars

\* C11: two setter calls in a row never leave two elements: at the boundary
\* between setX(a) and setX(b) the store holds the one element derived from a,
\* a getter called at that boundary returns it and leaves it, and when setX(b)
\* returns the store holds only the element derived from b.
C11_LastSetterWins ==
    [][(lastCall.op = "set" /\ (lastCall'.op = "set" \/ lastCall'.op = "get")) =>
        \A id \in DOMAIN stores :
            DOMAIN stores = {id} =>
                LET a == lastCall.args[1]
                    ea == IF a.type = "number" THEN Model(a.value) ELSE a
                IN  /\ stores[id].data = <<ea>>
                    /\ Len(stores'[id].data) = 1
                    /\ lastCall'.op = "get" =>
                          (lastCall'.ret = ea /\ stores'[id].data = <<ea>>)
                    /\ lastCall'.op = "set" =>
                          LET b == lastCall'.args[1]
                          IN  stores'[id].data =
                                <<IF b.type = "number" THEN Model(b.value) ELSE b>>]_vars

\* C11's case: the getter called on the one store right after the setter,
\* while the store's load is still in flight
C11_Witness ==
    /\ lastCall.op = "get"
    /\ lastCall.ret.type = "model"
    /\ \E id \in DOMAIN stores :
          /\ DOMAIN stores = {id}
          /\ stores[id].pending = 1
          /\ stores[id].data = <<lastCall.ret>>

\* C12: the association's name is the configured name when there is a
\* non-empty one and the lower-cased associated model name otherwise, and the
\* accessors are named "get" and "set" followed by the capitalized name:
\* Address without a name gives address, getAddress and setAddress.
C12_NameDerivation ==
    (lastCall.op = "define" /\ lastCall.ret.status = "registered") =>
        LET d == lastCall.args[1]
            name == IF d.name # <<>> THEN d.name ELSE toLowerCase(d.model)
        IN  /\ lastCall.ret.name = name
            /\ lastCall.ret.getter = <<"g", "e", "t">> \o capitalize(name)
            /\ lastCall.ret.setter = <<"s", "e", "t">> \o capitalize(name)
            /\ (d.model = Address /\ d.name = <<>>) =>
                  /\ lastCall.ret.name = <<"a", "d", "d", "r", "e", "s", "s">>
                  /\ lastCall.ret.getter =
                        <<"g", "e", "t", "A", "d", "d", "r", "e", "s", "s">>
                  /\ lastCall.ret.setter =
                        <<"s", "e", "t", "A", "d", "d", "r", "e", "s", "s">>

\* C12's case: Address declared without a name
C12_Witness ==
    /\ lastCall.op = "define"
    /\ lastCall.args[1].model = Address
    /\ lastCall.args[1].name = <<>>
    /\ lastCall.ret.status = "registered"
    /\ lastCall.ret.getter = <<"g", "e", "t", "A", "d", "d", "r", "e", "s", "s">>

C14_FailureReported ==
    [][(lastCall'.op = "onload" /\ lastCall.op = "get"
            /\ lastCall.args = <<"callback">>) =>
        \A id \in DOMAIN stores :
            (DOMAIN stores = {id} /\ LoadFailure(id)) =>
                /\ "callback" \in invoked'
                /\ stores'[id].loading
                /\ ~stores'[id].loaded
                /\ stores'[id].reads = stores[id].reads]_vars

\* the properties the declarations that failed would set on a record
UnregisteredNames ==
    UNION {{applyStoreName(applyName(Associations[R].name, Associations[R].model)),
            GetterNameOf(applyName(Associations[R].name, Associations[R].model)),
            SetterNameOf(applyName(Associations[R].name, Associations[R].model))} :
           R \in {Q \in DOMAIN Associations : Associations[Q].model \notin ModelTypes}}

\* the declarations whose associated model is not defined, each with what its
\* definition gave
Unresolved ==
    {Define(Associations[R]) :
        R \in {Q \in DOMAIN Associations : Associations[Q].model \notin ModelTypes}}

C16_FirstAccessBinds ==
    [][\A r \in Records, R \in Relations :
          (~Bound(r, R) /\ props'[r][storeNames[R]] # Undefined) =>
              (lastCall'.op = "get" \/ lastCall'.op = "set")]_vars

\* C17: whatever the store configuration, one with a model of its own
\* included, the stores the factory creates have the associated model.
C17_ModelForced ==
    (lastCall.op = "define" /\ lastCall.ret.status = "registered") =>
        lastCall.ret.config.model = ModelClass(lastCall.args[1].model)

====
